---- MODULE Spec2Model ----
(***************************************************************************)
(* Model of the document exporter (src/services/exportService.ts).         *)
(*                                                                         *)
(* The file holds two versions of exportDocToDocx:                         *)
(*   - the primary markup path (lines 1-217): parses blocks[0].content as  *)
(*     HTML and translates the DOM tree to docx paragraphs;                *)
(*   - the flat block-list path (lines 220-386): one paragraph per         *)
(*     text / image / video ContentBlock.                                  *)
(*                                                                         *)
(* An export is an async function.  Everything between two awaits runs     *)
(* atomically on the JS event loop, so the function is modelled as a       *)
(* machine with an explicit continuation (stack of pending tasks) that     *)
(* runs until it suspends on a resource resolution (getFileBuffer,         *)
(* captureVideoFrame) or on Packer.toBlob.                                 *)
(*                                                                         *)
(* The parsed DOM is the input: a node is a record                         *)
(*   [id, type, tag, text, src, kids]                                      *)
(* where id is the node's identity (its path from document.body), type is  *)
(* "text" | "elem" | "other", text is the character data of a text node    *)
(* (a sequence of characters), src the src attribute of an element ("" if  *)
(* absent) and kids its childNodes.                                        *)
(***************************************************************************)
EXTENDS Integers, Sequences, FiniteSets, TLC

(***************************************************************************)
(* Bounds of the model.                                                    *)
(***************************************************************************)
\* number of top-level nodes of a body
MaxTop == 3
\* nesting depth of the generated list chains
MaxDepth == 4
\* number of ContentBlocks handed to the flat path
MaxBlocks == 3
\* seconds the clock of a capture runs on after the timeout of the timer
MaxLate == 1
\* history pushes, files chosen and AI / export calls in one run of a component
MaxPushes == 3
MaxFiles == 1
MaxCalls == 2

(***************************************************************************)
(* Generic helpers.                                                        *)
(***************************************************************************)
SeqsUpTo(S, n) == UNION {[1..k -> S] : k \in 0..n}

RECURSIVE Flatten(_)
Flatten(ss) == IF ss = <<>> THEN <<>> ELSE Head(ss) \o Flatten(Tail(ss))

Min(S) == CHOOSE x \in S : \A y \in S : x <= y

(***************************************************************************)
(* DOM nodes (the result of DOMParser.parseFromString).                    *)
(***************************************************************************)
Text(chars) ==
  [id |-> <<>>, type |-> "text", tag |-> "#text", text |-> chars, src |-> "", kids |-> <<>>]

Elem(tag, kids) ==
  [id |-> <<>>, type |-> "elem", tag |-> tag, text |-> <<>>, src |-> "", kids |-> kids]

Img(src) ==
  [id |-> <<>>, type |-> "elem", tag |-> "IMG", text |-> <<>>, src |-> src, kids |-> <<>>]

\* a node that is neither a text node nor an HTMLElement (a comment)
Comment ==
  [id |-> <<>>, type |-> "other", tag |-> "#comment", text |-> <<"x">>, src |-> "", kids |-> <<>>]

\* Node identity: every node of a parsed document is labelled with its path
\* from document.body (the index of each ancestor among its siblings).
RECURSIVE LabelNode(_, _)
LabelNode(n, path) ==
  [n EXCEPT !.id = path,
            !.kids = [i \in 1..Len(n.kids) |-> LabelNode(n.kids[i], Append(path, i))]]

LabelBody(nodes) == [i \in 1..Len(nodes) |-> LabelNode(nodes[i], <<i>>)]

\* all nodes of a subtree, in document order (the node itself first)
RECURSIVE Descendants(_)
Descendants(n) ==
  <<n>> \o Flatten([i \in 1..Len(n.kids) |-> Descendants(n.kids[i])])

NodesOf(nodes) == Flatten([i \in 1..Len(nodes) |-> Descendants(nodes[i])])

\* Node.textContent of an element: the character data of its text
\* descendants, concatenated in document order
TextContent(nodes) ==
  LET all == NodesOf(nodes)
  IN  Flatten([i \in 1..Len(all) |-> IF all[i].type = "text" THEN all[i].text ELSE <<>>])

IsPrefix(p, q) == Len(p) <= Len(q) /\ SubSeq(q, 1, Len(p)) = p

(***************************************************************************)
(* Resource Resolver: getFileBuffer.                                       *)
(*                                                                         *)
(* A reference is a string.  "data:..." references are decoded in place    *)
(* (atob throws on a corrupted base64 body, the catch returns null); any   *)
(* other reference is fetched: the fetch rejects (network error, revoked   *)
(* blob handle) and the catch returns null, or it resolves and the body of *)
(* the response, whatever its status, is returned as the buffer.           *)
(***************************************************************************)
DataRefs == {"data:ok", "data:corrupt"}

IsDataUrl(url) == url \in DataRefs

\* atob(url.split(',')[1]) succeeds
Base64Valid(url) == url = "data:ok"

\* URL.createObjectURL handles; every other reference is fetched over http
BlobRefs == {"blob:1", "blob:2", "blob:3"}

\* what a fetch of the reference can do: a blob handle is readable or
\* revoked, an http fetch is answered 2xx, answered 4xx/5xx, or fails
FetchResults(url) ==
  IF url \in BlobRefs THEN {"ok", "revokedBlob"}
  ELSE {"ok", "networkError", "status404"}

Null == [ok |-> FALSE, data |-> ""]

Bytes(data) == [ok |-> TRUE, data |-> data]

\* the value getFileBuffer(url) returns when the read (if any) ends with
\* fetchResult
getFileBuffer(url, fetchResult) ==
  IF IsDataUrl(url)
    THEN IF Base64Valid(url) THEN Bytes(url) ELSE Null
    ELSE CASE fetchResult = "ok" -> Bytes(url)
           [] fetchResult = "status404" -> Bytes("errorBody")
           [] OTHER -> Null

\* the results a read of url can have (a data reference performs no read)
ReadResults(url) == IF IsDataUrl(url) THEN {"ok"} ELSE FetchResults(url)

(***************************************************************************)
(* docx runs and paragraphs, as the options the code constructs them with. *)
(* node is the identity of the DOM node (or the index of the ContentBlock) *)
(* the run or paragraph was built for.                                     *)
(***************************************************************************)
NoStyles == [bold |-> FALSE, italics |-> FALSE, underline |-> FALSE]

TextRun(text, styles, node) ==
  [type |-> "text", text |-> text, bold |-> styles.bold, italics |-> styles.italics,
   underline |-> styles.underline, data |-> "", width |-> 0, height |-> 0,
   node |-> node]

ImageRun(buffer, width, height, node) ==
  [type |-> "image", text |-> <<>>, bold |-> FALSE, italics |-> FALSE,
   underline |-> FALSE, data |-> buffer.data, width |-> width, height |-> height,
   node |-> node]

NoNumbering == [present |-> FALSE, reference |-> "", level |-> 0]

NoBullet == [present |-> FALSE, level |-> 0]

Paragraph(kind, node) ==
  [kind |-> kind, text |-> "", heading |-> 0, children |-> <<>>,
   bullet |-> NoBullet, numbering |-> NoNumbering, indentLeft |-> 0,
   thematicBreak |-> FALSE, node |-> node]

\* title || fallback
TitleOr(title, fallback) == IF title # "" THEN title ELSE fallback

\* exportService.ts:81-86; the fallback stands for the Korean literal
TitleParagraph(title, fallback) ==
  [Paragraph("Title", <<>>) EXCEPT !.text = TitleOr(title, fallback), !.heading = 1]

(***************************************************************************)
(* The export as a machine.  A machine state is a record                   *)
(*   stack       the continuation: the calls still to be made, next first  *)
(*   children    the local array of the running parseNodeContent call      *)
(*   docChildren the block sequence built so far                           *)
(*   awaiting    the resource resolution the function is suspended on      *)
(***************************************************************************)
NoCtx == [present |-> FALSE, reference |-> "", level |-> 0]

ListCtx(ref, level) == [present |-> TRUE, reference |-> ref, level |-> level]

NotAwaiting == [site |-> "none", src |-> "", node |-> <<>>, mimeType |-> ""]

Awaiting(site, src, node, mimeType) ==
  [site |-> site, src |-> src, node |-> node, mimeType |-> mimeType]

NoNode == Comment

NoBlock == [type |-> "text", html |-> <<>>, url |-> "", mimeType |-> ""]

BlankTask ==
  [t |-> "", n |-> NoNode, styles |-> NoStyles, ctx |-> NoCtx,
   para |-> Paragraph("", <<>>), ifNonEmpty |-> FALSE, block |-> NoBlock, index |-> 0]

\* processBlockNode(n, ctx)
NodeTask(n, ctx) == [BlankTask EXCEPT !.t = "node", !.n = n, !.ctx = ctx]

\* walk(n, styles)
WalkTask(n, styles) == [BlankTask EXCEPT !.t = "walk", !.n = n, !.styles = styles]

\* docChildren.push(new Paragraph({children, ...})) once parseNodeContent
\* has returned; with ifNonEmpty only if (children.length > 0)
PushTask(para, ifNonEmpty) ==
  [BlankTask EXCEPT !.t = "push", !.para = para, !.ifNonEmpty = ifNonEmpty]

\* one iteration of the flat path's loop over blocks
FlatTask(block, index) == [BlankTask EXCEPT !.t = "flat", !.block = block, !.index = index]

\* a loop over the childNodes from the last to the first
WalkTasks_Backwards(kids, styles) ==
  [i \in 1..Len(kids) |-> WalkTask(kids[Len(kids) + 1 - i], styles)]

\* for (const child of Array.from(node.childNodes)) await walk(child, ...)
WalkTasks(kids, styles) == [i \in 1..Len(kids) |-> WalkTask(kids[i], styles)]

\* await parseNodeContent(element), then push the paragraph built from it
ParseThenPush(kids, para, ifNonEmpty) ==
  WalkTasks(kids, NoStyles) \o <<PushTask(para, ifNonEmpty)>>

(***************************************************************************)
(* parseNodeContent.walk (exportService.ts:33-69)                          *)
(***************************************************************************)
\* styles that take the flags of the wrapper alone
newStyles_NotInherited(tagName, styles) ==
  [bold      |-> tagName \in {"STRONG", "B"},
   italics   |-> tagName \in {"EM", "I"},
   underline |-> tagName = "U"]

newStyles(tagName, styles) ==
  [bold      |-> styles.bold \/ tagName \in {"STRONG", "B"},
   italics   |-> styles.italics \/ tagName \in {"EM", "I"},
   underline |-> styles.underline \/ tagName = "U"]

walk(m, node, styles) ==
  IF node.type = "text"
    THEN IF node.text # <<>>
           THEN [m EXCEPT !.children = Append(@, TextRun(node.text, styles, node.id))]
           ELSE m
    ELSE IF node.type = "elem"
      THEN IF node.tag = "IMG"
             THEN IF node.src # ""
                    THEN [m EXCEPT !.awaiting = Awaiting("inline", node.src, node.id, "")]
                    ELSE m
             ELSE [m EXCEPT !.stack = WalkTasks(node.kids, newStyles(node.tag, styles)) \o @]
      ELSE m

\* a continuation that puts the image before the runs collected so far
walkResume_ImageFirst(m, buffer) ==
  IF buffer.ok
    THEN [m EXCEPT !.children = <<ImageRun(buffer, 550, 350, m.awaiting.node)>> \o @,
                   !.awaiting = NotAwaiting]
    ELSE [m EXCEPT !.awaiting = NotAwaiting]

\* the continuation of walk after await getFileBuffer(src)
walkResume(m, buffer) ==
  IF buffer.ok
    THEN [m EXCEPT !.children = Append(@, ImageRun(buffer, 550, 350, m.awaiting.node)),
                   !.awaiting = NotAwaiting]
    ELSE [m EXCEPT !.awaiting = NotAwaiting]

(***************************************************************************)
(* processBlockNode (exportService.ts:94-186)                              *)
(***************************************************************************)
\* a map that answers a heading level for every tag
headingMap_AnyTag(tagName) ==
  CASE tagName = "H1" -> 1 [] tagName = "H2" -> 2 [] tagName = "H3" -> 3
    [] tagName = "H4" -> 4 [] tagName = "H5" -> 5 [] tagName = "H6" -> 6
    [] OTHER -> 1

headingMap(tagName) ==
  CASE tagName = "H1" -> 1 [] tagName = "H2" -> 2 [] tagName = "H3" -> 3
    [] tagName = "H4" -> 4 [] tagName = "H5" -> 5 [] tagName = "H6" -> 6
    [] OTHER -> 0

IsListElement(child) == child.type = "elem" /\ child.tag \in {"UL", "OL"}

\* index of the node that Array.find returns among the childNodes, 0 if
\* it returns undefined
nestedList(liElement) ==
  LET found == {i \in 1..Len(liElement.kids) : IsListElement(liElement.kids[i])}
  IN  IF found = {} THEN 0 ELSE Min(found)

\* the childNodes of liClone once nestedInClone has been removed
liClone(liElement) ==
  LET k == nestedList(liElement)
  IN  IF k = 0 THEN liElement.kids
      ELSE SubSeq(liElement.kids, 1, k - 1) \o SubSeq(liElement.kids, k + 1, Len(liElement.kids))

\* a family inherited from the enclosing list
isOrdered_Inherited(tagName, listContext) ==
  IF listContext.present THEN listContext.reference = "main-numbering" ELSE tagName = "OL"

isOrdered(tagName, listContext) == tagName = "OL"

\* a level clamped to the deepest level of the numbering configuration
listLevel_Clamped(listContext) ==
  Min({(IF listContext.present THEN listContext.level ELSE -1) + 1, 2})

listLevel(listContext) == (IF listContext.present THEN listContext.level ELSE -1) + 1

\* an identifier the numbering configuration does not define
listRef_Undefined(ordered) == IF ordered THEN "ordered-numbering" ELSE "bullet-numbering"

listRef(ordered) == IF ordered THEN "main-numbering" ELSE "bullet-numbering"

\* an identifier of its own for every top-level list after the first
ListItemParagraph_PerList(ordered, ref, level, node) ==
  [Paragraph("ListItem", node) EXCEPT
     !.bullet = IF ordered THEN NoBullet ELSE [present |-> TRUE, level |-> level],
     !.numbering = IF ordered
                     THEN [present |-> TRUE,
                           reference |-> IF node[1] = 1 THEN ref ELSE "main-numbering-2",
                           level |-> level]
                     ELSE NoNumbering]

\* the bullet and numbering options of a list item's Paragraph
ListItemParagraph(ordered, ref, level, node) ==
  [Paragraph("ListItem", node) EXCEPT
     !.bullet = IF ordered THEN NoBullet ELSE [present |-> TRUE, level |-> level],
     !.numbering = IF ordered THEN [present |-> TRUE, reference |-> ref, level |-> level]
                   ELSE NoNumbering]

\* the body of the loop over node.children for one child
ListItemTasks(li, ordered, ref, level) ==
  IF li.type = "elem" /\ li.tag = "LI"
    THEN ParseThenPush(liClone(li), ListItemParagraph(ordered, ref, level, li.id), FALSE)
         \o (IF nestedList(li) # 0
               THEN <<NodeTask(li.kids[nestedList(li)], ListCtx(ref, level))>>
               ELSE <<>>)
    ELSE <<>>

ListTasks(node, listContext) ==
  LET ordered == isOrdered(node.tag, listContext)
      level == listLevel(listContext)
      ref == listRef(ordered)
  IN  Flatten([i \in 1..Len(node.kids) |-> ListItemTasks(node.kids[i], ordered, ref, level)])

HeadingParagraph(level, node) == [Paragraph("Heading", node) EXCEPT !.heading = level]

QuoteParagraph(node) == [Paragraph("Quote", node) EXCEPT !.indentLeft = 720]

ThematicBreakParagraph(node) ==
  [Paragraph("ThematicBreak", node) EXCEPT !.thematicBreak = TRUE]

ImageParagraph(buffer, width, height, node) ==
  [Paragraph("Image", node) EXCEPT !.children = <<ImageRun(buffer, width, height, node)>>]

\* a P/DIV branch without the emptiness test
pushIfNonEmpty_Always(tagName) == FALSE

\* if (children.length > 0) of the P/DIV branch
pushIfNonEmpty(tagName) == tagName \in {"P", "DIV"}

processBlockNode(m, node, listContext) ==
  IF node.type # "elem" THEN m
  ELSE IF headingMap(node.tag) # 0
    THEN [m EXCEPT !.stack =
            ParseThenPush(node.kids, HeadingParagraph(headingMap(node.tag), node.id), FALSE) \o @]
  ELSE IF node.tag \in {"P", "DIV"}
    THEN [m EXCEPT !.stack =
            ParseThenPush(node.kids, Paragraph("Paragraph", node.id), pushIfNonEmpty(node.tag)) \o @]
  ELSE IF node.tag \in {"UL", "OL"}
    THEN [m EXCEPT !.stack = ListTasks(node, listContext) \o @]
  ELSE IF node.tag = "BLOCKQUOTE"
    THEN [m EXCEPT !.stack = ParseThenPush(node.kids, QuoteParagraph(node.id), FALSE) \o @]
  ELSE IF node.tag = "HR"
    THEN [m EXCEPT !.docChildren = Append(@, ThematicBreakParagraph(node.id))]
  ELSE IF node.tag = "IMG"
    THEN IF node.src # ""
           THEN [m EXCEPT !.awaiting = Awaiting("block", node.src, node.id, "")]
           ELSE m
  ELSE m

\* a failed standalone image replaced by a placeholder block
processBlockNodeResume_Placeholder(m, buffer) ==
  IF buffer.ok
    THEN [m EXCEPT !.docChildren = Append(@, ImageParagraph(buffer, 550, 350, m.awaiting.node)),
                   !.awaiting = NotAwaiting]
    ELSE [m EXCEPT !.docChildren = Append(@, Paragraph("Placeholder", m.awaiting.node)),
                   !.awaiting = NotAwaiting]

\* the continuation of the IMG branch after await getFileBuffer(src)
processBlockNodeResume(m, buffer) ==
  IF buffer.ok
    THEN [m EXCEPT !.docChildren = Append(@, ImageParagraph(buffer, 550, 350, m.awaiting.node)),
                   !.awaiting = NotAwaiting]
    ELSE [m EXCEPT !.awaiting = NotAwaiting]

\* docChildren.push(new Paragraph({children: <result of parseNodeContent>}))
pushParagraph(m, para, ifNonEmpty) ==
  IF ifNonEmpty /\ Len(m.children) = 0
    THEN [m EXCEPT !.children = <<>>]
    ELSE [m EXCEPT !.docChildren = Append(@, [para EXCEPT !.children = m.children]),
                   !.children = <<>>]

(***************************************************************************)
(* Flat block-list path (exportService.ts:291-371).  A ContentBlock is a   *)
(* record [type, html, url, mimeType]: its content is markup (html, the    *)
(* parsed nodes) for a text block and a reference (url) for a media block. *)
(***************************************************************************)
IsSpace(c) == c = " "

RECURSIVE TrimStart(_)
TrimStart(s) == IF s # <<>> /\ IsSpace(Head(s)) THEN TrimStart(Tail(s)) ELSE s

RECURSIVE TrimEnd(_)
TrimEnd(s) ==
  IF s # <<>> /\ IsSpace(s[Len(s)]) THEN TrimEnd(SubSeq(s, 1, Len(s) - 1)) ELSE s

trim(s) == TrimEnd(TrimStart(s))

\* doc.body.textContent || ""
cleanHtml(html) == TextContent(html)

TextParagraph(text, node) ==
  [Paragraph("Text", node) EXCEPT !.children = <<TextRun(text, NoStyles, node)>>]

VideoLabelParagraph(node) ==
  [Paragraph("VideoLabel", node) EXCEPT
     !.children = <<TextRun(<<"[Video Snapshot]">>,
                            [NoStyles EXCEPT !.italics = TRUE], node)>>]

\* `[Video Attachment: ${block.mimeType || 'Video'}]`
PlaceholderParagraph(mimeType, node) ==
  [Paragraph("Placeholder", node) EXCEPT
     !.text = IF mimeType # "" THEN mimeType ELSE "Video"]

flatBlock(m, block, index) ==
  IF block.type = "text"
    THEN LET text == trim(cleanHtml(block.html))
         IN  IF text # <<>>
               THEN [m EXCEPT !.docChildren = Append(@, TextParagraph(text, <<index>>))]
               ELSE m
  ELSE IF block.type = "image"
    THEN [m EXCEPT !.awaiting = Awaiting("flatImage", block.url, <<index>>, block.mimeType)]
  ELSE IF block.type = "video"
    THEN [m EXCEPT !.awaiting = Awaiting("video", block.url, <<index>>, block.mimeType)]
  ELSE m

\* the continuation of the image branch after await getFileBuffer
flatImageResume(m, buffer) ==
  IF buffer.ok
    THEN [m EXCEPT !.docChildren = Append(@, ImageParagraph(buffer, 500, 350, m.awaiting.node)),
                   !.awaiting = NotAwaiting]
    ELSE [m EXCEPT !.awaiting = NotAwaiting]

\* a video branch without the fallback placeholder
flatVideoResume_NoPlaceholder(m, buffer) ==
  IF buffer.ok
    THEN [m EXCEPT !.docChildren = @ \o <<VideoLabelParagraph(m.awaiting.node),
                                         ImageParagraph(buffer, 500, 350, m.awaiting.node)>>,
                   !.awaiting = NotAwaiting]
    ELSE [m EXCEPT !.awaiting = NotAwaiting]

\* the continuation of the video branch after await captureVideoFrame
flatVideoResume(m, buffer) ==
  IF buffer.ok
    THEN [m EXCEPT !.docChildren = @ \o <<VideoLabelParagraph(m.awaiting.node),
                                         ImageParagraph(buffer, 500, 350, m.awaiting.node)>>,
                   !.awaiting = NotAwaiting]
    ELSE [m EXCEPT !.docChildren =
                     Append(@, PlaceholderParagraph(m.awaiting.mimeType, m.awaiting.node)),
                   !.awaiting = NotAwaiting]

(***************************************************************************)
(* Running the continuation.                                               *)
(***************************************************************************)
\* make the next pending call
StepTask(m) ==
  LET task == Head(m.stack)
      rest == [m EXCEPT !.stack = Tail(@)]
  IN  CASE task.t = "node" -> processBlockNode(rest, task.n, task.ctx)
        [] task.t = "walk" -> walk(rest, task.n, task.styles)
        [] task.t = "push" -> pushParagraph(rest, task.para, task.ifNonEmpty)
        [] task.t = "flat" -> flatBlock(rest, task.block, task.index)
        [] OTHER -> rest

\* run until the function suspends on a resource resolution or has made
\* every call
RECURSIVE Run(_)
Run(m) ==
  IF m.awaiting.site # "none" \/ m.stack = <<>> THEN m ELSE Run(StepTask(m))

\* resume the suspended function with the result of the awaited resolution
Resume(m, buffer) ==
  CASE m.awaiting.site = "inline" -> walkResume(m, buffer)
    [] m.awaiting.site = "block" -> processBlockNodeResume(m, buffer)
    [] m.awaiting.site = "flatImage" -> flatImageResume(m, buffer)
    [] m.awaiting.site = "video" -> flatVideoResume(m, buffer)
    [] OTHER -> m

(***************************************************************************)
(* The Document handed to Packer.toBlob.                                   *)
(***************************************************************************)
\* exportService.ts:193-204
NumberingConfig ==
  <<[reference |-> "main-numbering",
     levels |-> <<[level |-> 0, format |-> "decimal"],
                  [level |-> 1, format |-> "lowerLetter"],
                  [level |-> 2, format |-> "lowerRoman"]>>]>>

NoDocument == [built |-> FALSE, numbering |-> <<>>, children |-> <<>>]

Document(numbering, children) ==
  [built |-> TRUE, numbering |-> numbering, children |-> children]

(***************************************************************************)
(* Inputs: markup the editor can serialize (h1-h6, p, div, strong/b, em/i, *)
(* u, ul/ol/li with nesting, blockquote, hr, img) plus elements the        *)
(* translator does not know.                                               *)
(***************************************************************************)
Ta == Text(<<"a">>)
Tb == Text(<<"b">>)
Tc == Text(<<"c">>)

LI(kids) == Elem("LI", kids)

Inlines ==
  { <<>>,
    <<Ta>>,
    <<Ta, Elem("STRONG", <<Tb>>)>>,
    <<Elem("EM", <<Elem("U", <<Ta>>), Tb>>), Tc>>,
    <<Img("data:ok")>>,
    <<Img("data:corrupt")>>,
    <<Img("http:1"), Img("blob:1")>>,
    <<Ta, Img("blob:1"), Tb>>,
    \* two equal runs side by side, then an image
    <<Elem("B", <<Ta>>), Elem("B", <<Ta>>), Img("blob:1"), Tc>>,
    \* wrappers in wrappers, and siblings outside them
    <<Elem("B", <<Elem("I", <<Ta>>), Tb>>), Elem("SPAN", <<Tc>>), Elem("U", <<Elem("STRONG", <<Ta>>)>>)>>,
    <<Img("")>> }

FewInlines == { <<>>, <<Ta>>, <<Img("blob:1")>> }

\* list chains: one item per list, each item holding text and at most one
\* nested list, every level bulleted or ordered
RECURSIVE ListChains(_)
ListChains(depth) ==
  IF depth = 0 THEN {}
  ELSE {Elem(tag, <<LI(<<Ta>> \o nested)>>) :
          tag \in {"UL", "OL"},
          nested \in {<<>>} \cup {<<l>> : l \in ListChains(depth - 1)}}

SpecialLists ==
  { Elem("UL", <<LI(<<Ta>>), LI(<<Tb>>)>>),
    Elem("OL", <<LI(<<Elem("P", <<Ta>>)>>), LI(<<Tb>>)>>),
    \* an item with two direct child lists
    Elem("UL", <<LI(<<Ta, Elem("UL", <<LI(<<Tb>>)>>), Elem("OL", <<LI(<<Tc>>)>>)>>), LI(<<Tb>>)>>),
    Elem("OL", <<LI(<<Elem("P", <<Ta>>), Elem("OL", <<LI(<<Tb>>)>>), Elem("UL", <<LI(<<Tc>>)>>)>>)>>),
    \* a list with children that are not items
    Elem("UL", <<Text(<<" ">>), LI(<<Ta>>), Elem("DIV", <<Tb>>)>>),
    \* an item with an image, an item whose nested list comes first
    Elem("UL", <<LI(<<Img("blob:1"), Ta>>)>>),
    Elem("OL", <<LI(<<Elem("UL", <<LI(<<Tb>>), LI(<<Tc>>)>>), Ta>>), LI(<<Tc>>)>>),
    \* an item whose nested list holds an image and precedes the item's image
    Elem("OL", <<LI(<<Elem("UL", <<LI(<<Img("blob:1")>>)>>), Img("data:ok")>>)>>),
    \* a list nested in an item, but not as its direct child
    Elem("UL", <<LI(<<Elem("DIV", <<Elem("OL", <<LI(<<Tb>>)>>)>>)>>)>>) }

Unrecognized ==
  { Elem("TABLE", <<Elem("P", <<Ta>>)>>),
    Elem("SECTION", <<Img("blob:1"), Elem("UL", <<LI(<<Tb>>)>>)>>),
    Elem("SPAN", <<Ta>>) }

TopLevelNodes ==
  {Elem("P", inl) : inl \in Inlines}
  \cup {Elem(tag, inl) : tag \in {"DIV", "BLOCKQUOTE"}, inl \in FewInlines}
  \cup {Elem(tag, inl) : tag \in {"H1", "H2", "H3", "H4", "H5", "H6"}, inl \in {<<>>, <<Ta>>}}
  \cup {Elem("HR", <<>>), Ta, Comment}
  \cup {Img(src) : src \in {"data:ok", "data:corrupt", "blob:1", "http:1", ""}}
  \cup Unrecognized
  \cup ListChains(MaxDepth)
  \cup SpecialLists

\* the nodes combined into bodies of several top-level nodes
CoreNodes ==
  { Elem("P", <<Ta>>), Elem("P", <<>>), Elem("H2", <<Tb>>), Elem("HR", <<>>),
    Elem("P", <<Ta, Img("blob:1"), Tb>>),
    Elem("UL", <<LI(<<Ta>>)>>),
    Elem("OL", <<LI(<<Tb, Elem("UL", <<LI(<<Tc>>)>>)>>)>>),
    Img("blob:1"), Img("data:corrupt"),
    Elem("TABLE", <<Elem("P", <<Ta>>)>>) }

Bodies == {<<n>> : n \in TopLevelNodes} \cup SeqsUpTo(CoreNodes, MaxTop)

TextBlock(html) == [type |-> "text", html |-> html, url |-> "", mimeType |-> ""]

MediaBlock(type, url, mimeType) ==
  [type |-> type, html |-> <<>>, url |-> url, mimeType |-> mimeType]

FlatBlocks ==
  { TextBlock(<<>>),
    TextBlock(<<Elem("P", <<Text(<<" ", "a", " ">>), Elem("B", <<Tb>>)>>)>>),
    TextBlock(<<Elem("DIV", <<Text(<<" ">>)>>)>>),
    MediaBlock("image", "data:ok", "image/png"),
    MediaBlock("image", "data:corrupt", "image/png"),
    MediaBlock("image", "blob:1", "image/jpeg"),
    MediaBlock("image", "http:1", "image/gif"),
    MediaBlock("video", "blob:2", "video/mp4"),
    MediaBlock("video", "blob:3", "") }

Titles == {"", "Q1 Report"}

\* the arguments of the primary path: App.tsx passes one text block holding
\* editor.getHTML(); the function accepts any block list
PrimaryInputs ==
  {<<>>}
  \cup {<<TextBlock(b)>> : b \in Bodies}
  \cup {<<TextBlock(<<n>>), x>> : n \in CoreNodes, x \in FlatBlocks}
  \cup {<<x>> : x \in FlatBlocks}

FlatInputs == SeqsUpTo(FlatBlocks, MaxBlocks)

\* the markup taken from the last block instead of the first
htmlContent_LastBlock(blocks) ==
  IF blocks = <<>> THEN <<>>
  ELSE IF blocks[Len(blocks)].type = "text" THEN blocks[Len(blocks)].html
  ELSE IF blocks[Len(blocks)].url = "" THEN <<>>
  ELSE <<Text(<<blocks[Len(blocks)].url>>)>>

\* blocks[0]?.content || '' as DOMParser parses it: the markup of a text
\* block, or the reference of a media block, which parses as one text node
htmlContent(blocks) ==
  IF blocks = <<>> THEN <<>>
  ELSE IF blocks[1].type = "text" THEN blocks[1].html
  ELSE IF blocks[1].url = "" THEN <<>>
  ELSE <<Text(<<blocks[1].url>>)>>

bodyNodes(blocks) == LabelBody(htmlContent(blocks))

(***************************************************************************)
(* State.                                                                  *)
(***************************************************************************)
VARIABLES
  path,         \* which version of exportDocToDocx runs: "primary" | "flat"
  title,        \* argument title
  blocks,       \* argument blocks
  pc,           \* "idle" | "suspended" | "packing" | "done" | "rejected"
  stack,        \* continuation of the suspended function
  children,     \* local array of the running parseNodeContent
  docChildren,  \* docChildren (primary) / children (flat): the block sequence
  awaiting,     \* the resolution the function is suspended on
  capture,      \* the running captureVideoFrame: [phase, timer, elapsed]
  document,     \* the Document constructed after the loop
  saveLog,      \* the save side effects performed, in order
  resolved,     \* history: the resolutions completed so far, in order
  lastSettle,   \* history: what made the latest resolution settle, in which phase
  started,      \* history: the nodes whose resolution was started, in order
  app,          \* the calling component: [handler, isLoading, error, setErrorCalls]
  conc,         \* two invocations of the primary export that run interleaved
  ed            \* the state of the component that hosts the editor

vars ==
  <<path, title, blocks, pc, stack, children, docChildren, awaiting, capture,
    document, saveLog, resolved, lastSettle, started, app, conc, ed>>

\* setTimeout(..., 5000): the delay of the capture timer in ms
TimeoutMs == 5000

IdleCapture == [phase |-> "idle", timer |-> FALSE, elapsed |-> 0]

\* captureVideoFrame up to `return new Promise`: the video element is
\* created and the 5 s timer armed
NewCapture == [phase |-> "loading", timer |-> TRUE, elapsed |-> 0]

Machine ==
  [stack |-> stack, children |-> children, docChildren |-> docChildren,
   awaiting |-> awaiting]

\* a translator that forgets the title
TitleFirst_NoTitle(t, fallback) == <<>>

\* the block sequence right after the title has been pushed
TitleFirst(t, fallback) == <<TitleParagraph(t, fallback)>>

\* new Document({numbering, sections: [{children}]})
NewDocument(p, blockSeq) ==
  IF p = "primary" THEN Document(NumberingConfig, blockSeq) ELSE Document(<<>>, blockSeq)

\* the function has run to machine state m: it is suspended on a resolution
\* or it has left the loop, built the Document and awaits Packer.toBlob
\* the hosting component is not followed while an export is followed in
\* detail
NoComponent ==
  [component |-> "none", hasContent |-> FALSE, blocks |-> <<>>, history |-> <<>>,
   historyIndex |-> 0, timers |-> <<>>, handles |-> 0, revoked |-> {},
   pushes |-> 0, calls |-> 0, isLoading |-> FALSE, error |-> "",
   aiInFlight |-> <<>>, exportsInFlight |-> 0, resets |-> 0]

\* the two invocations
Invocations == {1, 2}

\* no second invocation is modelled while one export is followed in detail
NoInvocations ==
  [title |-> <<>>, body |-> <<>>, pc |-> <<>>, stack |-> <<>>, awaiting |-> <<>>,
   childrenArrays |-> <<>>, docChildrenArrays |-> <<>>, outcomes |-> <<>>,
   final |-> <<>>]

\* the component after mount: useState(false), useState(null)
InitialApp ==
  [handler |-> "idle", isLoading |-> FALSE, error |-> "", setErrorCalls |-> 0]

\* handleExportDocx / handleExport up to the await: setIsLoading(true)
handleExportStart(a) == [a EXCEPT !.handler = "awaiting", !.isLoading = TRUE]

\* the message of the catch clause (stand-ins for the two Korean texts)
ExportErrorMessage(p) ==
  IF p = "primary" THEN "ExportError(ko)" ELSE "ExportFailed(ko)"

\* catch (err) { setError(...) }
handleExportCatch(a, p) ==
  [a EXCEPT !.error = ExportErrorMessage(p), !.setErrorCalls = @ + 1]

\* a handler without the finally clause
handleExportFinally_KeepsLoading(a) == [a EXCEPT !.handler = "returned"]

\* finally { setIsLoading(false) }
handleExportFinally(a) == [a EXCEPT !.handler = "returned", !.isLoading = FALSE]

Proceed(m) ==
  /\ stack' = m.stack
  /\ children' = m.children
  /\ docChildren' = m.docChildren
  /\ awaiting' = m.awaiting
  /\ started' = IF m.awaiting.site = "none" THEN started
                ELSE Append(started, m.awaiting.node)
  /\ capture' = IF m.awaiting.site = "video" THEN NewCapture ELSE IdleCapture
  /\ IF m.awaiting.site = "none"
       THEN pc' = "packing" /\ document' = NewDocument(path, m.docChildren)
       ELSE pc' = "suspended" /\ document' = document

Init ==
  /\ path \in {"primary", "flat"}
  /\ title \in Titles
  /\ blocks \in (IF path = "primary" THEN PrimaryInputs ELSE FlatInputs)
  /\ pc = "idle"
  /\ stack = <<>>
  /\ children = <<>>
  /\ docChildren = <<>>
  /\ awaiting = NotAwaiting
  /\ capture = IdleCapture
  /\ document = NoDocument
  /\ saveLog = <<>>
  /\ resolved = <<>>
  /\ lastSettle = [cause |-> "none", phase |-> "idle"]
  /\ started = <<>>
  /\ app = InitialApp
  /\ conc = NoInvocations
  /\ ed = NoComponent

(***************************************************************************)
(* exportDocToDocx, primary path, up to its first suspension               *)
(* (exportService.ts:77-190).                                              *)
(***************************************************************************)
\* the title push and the loop over the parsed body nodes
PrimaryRun(t, nodes) ==
  Run([stack |-> [i \in 1..Len(nodes) |-> NodeTask(nodes[i], NoCtx)],
       children |-> <<>>,
       docChildren |-> TitleFirst(t, "NoTitle(ko)"),
       awaiting |-> NotAwaiting])

PrimaryStart(t, bs) == PrimaryRun(t, bodyNodes(bs))

StartPrimary ==
  /\ pc = "idle"
  /\ path = "primary"
  /\ Proceed(PrimaryStart(title, blocks))
  /\ app' = handleExportStart(app)
  /\ UNCHANGED <<ed, conc, path, title, blocks, saveLog, resolved, lastSettle>>

(***************************************************************************)
(* exportDocToDocx, flat path, up to its first suspension                  *)
(* (exportService.ts:299-371).                                             *)
(***************************************************************************)
FlatStart(t, bs) ==
  Run([stack |-> [i \in 1..Len(bs) |-> FlatTask(bs[i], i)],
       children |-> <<>>,
       docChildren |-> TitleFirst(t, "Untitled Document"),
       awaiting |-> NotAwaiting])

StartFlat ==
  /\ pc = "idle"
  /\ path = "flat"
  /\ Proceed(FlatStart(title, blocks))
  /\ app' = handleExportStart(app)
  /\ UNCHANGED <<ed, conc, path, title, blocks, saveLog, resolved, lastSettle>>

(***************************************************************************)
(* A resolution completes with buffer and the function runs on to its next *)
(* suspension.  cause is what made the resolution settle: the result of    *)
(* the read, or the event of the capture.                                  *)
(***************************************************************************)
Settle(buffer, cause) ==
  /\ Proceed(Run(Resume(Machine, buffer)))
  /\ resolved' = Append(resolved, [node |-> awaiting.node, site |-> awaiting.site,
                                   src |-> awaiting.src, buffer |-> buffer])
  /\ lastSettle' = [cause |-> cause, phase |-> capture.phase]
  /\ UNCHANGED <<ed, conc, path, title, blocks, saveLog, app>>

\* await getFileBuffer(src) completes
ResolveBuffer ==
  /\ pc = "suspended"
  /\ awaiting.site \in {"inline", "block", "flatImage"}
  /\ \E r \in ReadResults(awaiting.src) :
        Settle(getFileBuffer(awaiting.src, r),
               IF IsDataUrl(awaiting.src) THEN "decode" ELSE r)

(***************************************************************************)
(* captureVideoFrame (exportService.ts:251-289): the events of one capture.*)
(***************************************************************************)
StayCapturing(c) ==
  /\ capture' = c
  /\ UNCHANGED <<ed, conc, path, title, blocks, pc, stack, children, docChildren, awaiting,
                 document, saveLog, resolved, lastSettle, started, app>>

\* video.onloadeddata: no 2d context clears the timer and resolves null;
\* otherwise the frame is drawn and toBlob called, which either accepts the
\* callback or throws out of the handler
VideoLoadedData ==
  /\ pc = "suspended"
  /\ capture.phase = "loading"
  /\ \/ StayCapturing([capture EXCEPT !.phase = "encoding"])
     \/ StayCapturing([capture EXCEPT !.phase = "threw"])
     \/ Settle(Null, "noContext")

\* video.onerror
VideoError ==
  /\ pc = "suspended"
  /\ capture.phase \in {"loading", "encoding", "reading", "threw"}
  /\ Settle(Null, "error")

\* the callback of canvas.toBlob: clears the timer, then reads the blob or
\* resolves null
ToBlobCallback ==
  /\ pc = "suspended"
  /\ capture.phase = "encoding"
  /\ \/ StayCapturing([capture EXCEPT !.phase = "reading", !.timer = FALSE])
     \/ Settle(Null, "nullBlob")

\* blob.arrayBuffer() settles: fulfilled resolves the frame, rejected has no
\* handler
ArrayBufferSettles ==
  /\ pc = "suspended"
  /\ capture.phase = "reading"
  /\ \/ Settle(Bytes("frame"), "frame")
     \/ StayCapturing([capture EXCEPT !.phase = "hung"])

\* a timer that may fire as soon as it is armed
TimerDue_AnyTime(c) == c.timer

\* the timer is due once TimeoutMs have elapsed since it was armed
TimerDue(c) == c.timer /\ c.elapsed = TimeoutMs

\* the 5 s timer fires
CaptureTimeout ==
  /\ pc = "suspended"
  /\ TimerDue(capture)
  /\ Settle(Null, "timeout")

\* one second passes during a capture; time does not pass a due timer, and
\* the clock of the model stops MaxLate seconds after the timeout
Tick ==
  /\ pc = "suspended"
  /\ capture.phase # "idle"
  /\ ~TimerDue(capture)
  /\ capture.elapsed < TimeoutMs + MaxLate * 1000
  /\ StayCapturing([capture EXCEPT !.elapsed = @ + 1000])

(***************************************************************************)
(* Packaging and download (exportService.ts:208-216, 377-385).             *)
(***************************************************************************)
\* a download that leaves the object URL alive
saveActions_NoRevoke == <<"createObjectURL", "appendChild", "click", "removeChild">>

\* the statements after `await Packer.toBlob(doc)`, which run without
\* suspension
saveActions ==
  <<"createObjectURL", "appendChild", "click", "removeChild", "revokeObjectURL">>

\* Packer.toBlob fulfils: createObjectURL, link.click, revokeObjectURL
PackAndSave ==
  /\ pc = "packing"
  /\ pc' = "done"
  /\ saveLog' = saveLog \o saveActions
  /\ UNCHANGED <<ed, conc, path, title, blocks, stack, children, docChildren, awaiting,
                 capture, document, resolved, lastSettle, started, app>>

\* Packer.toBlob rejects: the export function rejects
PackFails ==
  /\ pc = "packing"
  /\ pc' = "rejected"
  /\ UNCHANGED <<ed, conc, path, title, blocks, stack, children, docChildren, awaiting,
                 capture, document, saveLog, resolved, lastSettle, started, app>>

(***************************************************************************)
(* The calling handler after its await (App.tsx:182-194,                   *)
(* part_001:180-190): catch on rejection, then finally.                    *)
(***************************************************************************)
HandleExportSettles ==
  /\ pc \in {"done", "rejected"}
  /\ app.handler = "awaiting"
  /\ app' = handleExportFinally(IF pc = "rejected" THEN handleExportCatch(app, path)
                                ELSE app)
  /\ UNCHANGED <<ed, conc, path, title, blocks, pc, stack, children, docChildren, awaiting,
                 capture, document, saveLog, resolved, lastSettle, started>>

Next ==
  \/ StartPrimary
  \/ StartFlat
  \/ ResolveBuffer
  \/ VideoLoadedData
  \/ VideoError
  \/ ToBlobCallback
  \/ ArrayBufferSettles
  \/ CaptureTimeout
  \/ Tick
  \/ PackAndSave
  \/ PackFails
  \/ HandleExportSettles

Spec == Init /\ [][Next]_vars

TypeOK ==
  /\ pc \in {"idle", "suspended", "packing", "done", "rejected"}
  /\ (pc = "suspended") = (awaiting.site # "none")
  /\ (awaiting.site = "video") = (capture.phase # "idle")

(***************************************************************************)
(* Vocabulary of the properties.                                           *)
(***************************************************************************)
Range(s) == {s[i] : i \in 1..Len(s)}

\* the parsed body of the running primary export
Body == bodyNodes(blocks)

\* the node of the body with identity id
RECURSIVE NodeAt(_, _)
NodeAt(nodes, id) ==
  IF Len(id) = 1 THEN nodes[id[1]] ELSE NodeAt(nodes[id[1]].kids, Tail(id))

ParentId(id) == SubSeq(id, 1, Len(id) - 1)

\* the function has left the loop over the body / the blocks
Translated == pc \in {"packing", "done", "rejected"}

ContentBlocks == Tail(docChildren)

HasMedia(nodes) == \E n \in Range(NodesOf(nodes)) : n.type = "elem" /\ n.tag = "IMG"

\* the blocks built for the top-level node i, in output order
BlocksOfTop(i) == SelectSeq(ContentBlocks, LAMBDA b : b.node[1] = i)

(***************************************************************************)
(* C1: in both export paths the title block is appended exactly once and   *)
(* is the first element of the block sequence, of the sequence handed to   *)
(* the serializer too; no content block ever precedes it, also when the    *)
(* body is empty.                                                          *)
(***************************************************************************)
TitleOnceAndFirst(blockSeq) ==
  /\ Len(blockSeq) >= 1
  /\ blockSeq[1].kind = "Title"
  /\ blockSeq[1].heading = 1
  /\ blockSeq[1].text = TitleOr(title, IF path = "primary" THEN "NoTitle(ko)"
                                       ELSE "Untitled Document")
  /\ \A i \in 2..Len(blockSeq) : blockSeq[i].kind # "Title"

C1_TitleBlockFirst ==
  /\ pc = "idle" => docChildren = <<>>
  /\ pc # "idle" => TitleOnceAndFirst(docChildren)
  /\ document.built => TitleOnceAndFirst(document.children)

C1_Witness ==
  /\ pc = "done"
  /\ path = "flat"
  /\ Len(document.children) >= 3
  /\ title = ""

(***************************************************************************)
(* C2: a top-level paragraph (P/DIV) or heading (H1..H6) element whose     *)
(* Inline Run Builder result has zero runs appends no block in the primary *)
(* export.                                                                 *)
(***************************************************************************)
C2_NoEmptyParagraphOrHeading ==
  path = "primary" =>
    \A i \in 1..Len(docChildren) :
      (docChildren[i].kind \in {"Paragraph", "Heading"} /\ Len(docChildren[i].node) = 1)
        => docChildren[i].children # <<>>

\* the part of C2 that the code implements: P/DIV
C2_NoEmptyParagraph ==
  path = "primary" =>
    \A i \in 1..Len(docChildren) :
      docChildren[i].kind = "Paragraph" => docChildren[i].children # <<>>

(***************************************************************************)
(* C3 (as stated): for a body without media references the block sequence  *)
(* is the title block followed by exactly one block per non-empty          *)
(* top-level element.  Stated per element: every top-level element with    *)
(* text content contributes exactly one block.                             *)
(***************************************************************************)
NonEmptyElement(n) == n.type = "elem" /\ TextContent(<<n>>) # <<>>

RECURSIVE TranslatedItems(_)
TranslatedItems(list) ==
  LET item(li) ==
        IF li.type = "elem" /\ li.tag = "LI"
          THEN LET lists == {k \in 1..Len(li.kids) : IsListElement(li.kids[k])}
               IN  1 + (IF lists = {} THEN 0 ELSE TranslatedItems(li.kids[Min(lists)]))
          ELSE 0
      RECURSIVE sum(_)
      sum(k) == IF k = 0 THEN 0 ELSE item(list.kids[k]) + sum(k - 1)
  IN  sum(Len(list.kids))

ExpectedKind(n) ==
  CASE headingMap(n.tag) # 0 -> "Heading"
    [] n.tag \in {"P", "DIV"} -> "Paragraph"
    [] n.tag \in {"UL", "OL"} -> "ListItem"
    [] n.tag = "BLOCKQUOTE" -> "Quote"
    [] n.tag = "HR" -> "ThematicBreak"
    [] OTHER -> "none"

ExpectedBlocks(n) ==
  IF n.type # "elem" THEN 0
  ELSE CASE ExpectedKind(n) \in {"Heading", "Quote", "ThematicBreak"} -> 1
         [] ExpectedKind(n) = "Paragraph" -> IF TextContent(<<n>>) # <<>> THEN 1 ELSE 0
         [] ExpectedKind(n) = "ListItem" -> TranslatedItems(n)
         [] OTHER -> 0

IsListItem(b) == b.kind = "ListItem"

IsOrderedItem(b) == IsListItem(b) /\ b.numbering.present

IsBulletItem(b) == IsListItem(b) /\ b.bullet.present

\* the list element that directly contains the item a block was built for
ListOf(b) == NodeAt(Body, ParentId(b.node))

\* the marker format the configuration defines for (reference, level)
MarkerStyle(config, reference, level) ==
  LET defs == {d \in Range(config) : d.reference = reference}
      lvls == UNION {{l \in Range(d.levels) : l.level = level} : d \in defs}
  IN  IF lvls = {} THEN "undefined" ELSE (CHOOSE l \in lvls : TRUE).format

IsDefined(config, reference) == \E d \in Range(config) : d.reference = reference

(***************************************************************************)
(* C4: for every ordered list item emitted at nesting level L, the marker  *)
(* style the numbering configuration of the same export defines for it is  *)
(* decimal for L = 0, lower-letter for L = 1 and lower-roman for L >= 2.   *)
(***************************************************************************)
C4_OrderedLevelResolves ==
  (path = "primary" /\ document.built) =>
    \A b \in Range(document.children) :
      IsOrderedItem(b) =>
        MarkerStyle(document.numbering, b.numbering.reference, b.numbering.level)
          = CASE b.numbering.level = 0 -> "decimal"
              [] b.numbering.level = 1 -> "lowerLetter"
              [] OTHER -> "lowerRoman"

C7_FamilyFromOwnTag ==
  path = "primary" =>
    \A b \in Range(docChildren) :
      IsListItem(b) =>
        /\ IsOrderedItem(b) = (ListOf(b).tag = "OL")
        /\ IsBulletItem(b) = (ListOf(b).tag = "UL")

\* the block b2 was built for an item of a list nested in the item of b1
NestedIn(b2, b1) == Len(b2.node) >= 3 /\ ParentId(ParentId(b2.node)) = b1.node

\* a bulleted list in an ordered item and an ordered list in a bulleted item
C7_Witness ==
  /\ path = "primary"
  /\ pc = "done"
  /\ \E b1, b2 \in Range(docChildren) :
       IsOrderedItem(b1) /\ IsBulletItem(b2) /\ NestedIn(b2, b1)
  /\ \E b1, b2 \in Range(docChildren) :
       IsBulletItem(b1) /\ IsOrderedItem(b2) /\ NestedIn(b2, b1)

(***************************************************************************)
(* C8: for every list item with k >= 0 direct child list elements, the     *)
(* items of each of the k nested lists are emitted as ListItem blocks at   *)
(* level + 1 with the nested list's own family, after the parent item's    *)
(* block and before any block that does not stem from the parent item; no  *)
(* nested list child is skipped.                                           *)
(***************************************************************************)
LevelOf(b) == IF b.numbering.present THEN b.numbering.level ELSE b.bullet.level

IsItemElement(n) == n.type = "elem" /\ n.tag = "LI"

C8_EveryNestedListTranslated ==
  (path = "primary" /\ Translated) =>
    \A i \in 1..Len(docChildren) :
      IsListItem(docChildren[i]) =>
        LET parent == docChildren[i]
            li == NodeAt(Body, parent.node)
        IN  \A k \in 1..Len(li.kids) :
              IsListElement(li.kids[k]) =>
                \A j \in 1..Len(li.kids[k].kids) :
                  IsItemElement(li.kids[k].kids[j]) =>
                    \E x \in (i + 1)..Len(docChildren) :
                      /\ docChildren[x].node = li.kids[k].kids[j].id
                      /\ IsListItem(docChildren[x])
                      /\ LevelOf(docChildren[x]) = LevelOf(parent) + 1
                      /\ IsOrderedItem(docChildren[x]) = (li.kids[k].tag = "OL")
                      /\ \A y \in (i + 1)..x : IsPrefix(parent.node, docChildren[y].node)

(***************************************************************************)
(* C9: the runs of a list item's block are built from the item's leaf      *)
(* content only: no text or image that lies inside a direct child list     *)
(* element of the item is among the runs of the item's block, whatever the *)
(* number of direct child lists.                                           *)
(***************************************************************************)
C9_RunsFromLeafContentOnly ==
  path = "primary" =>
    \A b \in Range(docChildren) :
      IsListItem(b) =>
        LET li == NodeAt(Body, b.node)
        IN  \A r \in Range(b.children) :
              \A k \in 1..Len(li.kids) :
                IsListElement(li.kids[k]) => ~IsPrefix(li.kids[k].id, r.node)

(***************************************************************************)
(* C10: in the primary export, whatever image resolutions fail, the export *)
(* is never rejected by a resolution and goes on to the save action; a     *)
(* failed inline image contributes no run, a failed standalone image no    *)
(* block, and every other run and block is the same, in the same order, as *)
(* when those image elements are absent from the body.                     *)
(***************************************************************************)
\* the image elements whose resolution returned null
FailedImages == {e.node : e \in {r \in Range(resolved) : ~r.buffer.ok}}

\* the body without the nodes of the set gone
RECURSIVE Without(_, _)
Without(nodes, gone) ==
  LET kept == SelectSeq(nodes, LAMBDA n : n.id \notin gone)
  IN  [i \in 1..Len(kept) |-> [kept[i] EXCEPT !.kids = Without(kept[i].kids, gone)]]

\* the buffer the resolution for node id returned in this export
BufferOf(id) == (CHOOSE e \in Range(resolved) : e.node = id).buffer

\* run to the end of the loop, every resolution returning what it returned
\* in this export
RECURSIVE RunWithSameBuffers(_)
RunWithSameBuffers(m) ==
  IF m.awaiting.site = "none" THEN m
  ELSE RunWithSameBuffers(Run(Resume(m, BufferOf(m.awaiting.node))))

\* the block sequence of the export of the body without the failed images
BlocksWithoutFailedImages ==
  RunWithSameBuffers(PrimaryRun(title, Without(Body, FailedImages))).docChildren

C10_FailedImagesAreDropped ==
  path = "primary" =>
    /\ Translated => docChildren = BlocksWithoutFailedImages
    /\ \A b \in Range(docChildren) :
         /\ b.node \notin FailedImages
         /\ \A r \in Range(b.children) : r.node \notin FailedImages
    /\ pc = "rejected" => document.built
    /\ pc = "done" =>
         /\ document.children = docChildren
         /\ saveLog = saveActions

\* a finished export in which an inline image and a standalone image failed
\* and a block follows the failed standalone image
C10_Witness ==
  /\ path = "primary"
  /\ pc = "done"
  /\ \E e1, e2 \in Range(resolved) :
       /\ ~e1.buffer.ok /\ e1.site = "inline"
       /\ ~e2.buffer.ok /\ e2.site = "block"
       /\ \E b \in Range(ContentBlocks) : b.node[1] > e2.node[1]
       /\ \E b \in Range(ContentBlocks) :
            /\ IsPrefix(b.node, e1.node)
            /\ \E r \in Range(b.children) : r.node[Len(r.node)] > e1.node[Len(e1.node)]


(***************************************************************************)
(* Vocabulary of the flat path.                                            *)
(***************************************************************************)
\* the resolutions completed for the ContentBlock at index i
ResolutionsOf(i) == SelectSeq(resolved, LAMBDA e : e.node = <<i>>)

\* the text blocks are exported as their trimmed text, empty ones not at all
FlatTextBlocksExported ==
  \A j \in 1..Len(blocks) :
     blocks[j].type = "text" =>
        LET text == trim(cleanHtml(blocks[j].html))
        IN  BlocksOfTop(j) = IF text # <<>> THEN <<TextParagraph(text, <<j>>)>> ELSE <<>>

(***************************************************************************)
(* C11: in the flat path a standalone image block whose resolution failed  *)
(* is replaced by exactly one textual placeholder block carrying the       *)
(* block's declared media type, and the blocks before and after it are     *)
(* exported unchanged.                                                     *)
(***************************************************************************)
C11_FailedFlatImageReplacedByPlaceholder ==
  (path = "flat" /\ Translated) =>
     /\ \A i \in 1..Len(blocks) :
           (blocks[i].type = "image" /\ \E k \in 1..Len(ResolutionsOf(i)) :
                                            ~ResolutionsOf(i)[k].buffer.ok) =>
              BlocksOfTop(i) = <<PlaceholderParagraph(blocks[i].mimeType, <<i>>)>>
     /\ FlatTextBlocksExported


\* the blocks of the output follow the order of the ContentBlocks
InBlockOrder ==
  \A a, b \in 1..Len(ContentBlocks) :
     a < b => ContentBlocks[a].node[1] <= ContentBlocks[b].node[1]

\* what a video block whose capture settled with buffer contributes
VideoBlocks(i, buffer) ==
  IF buffer.ok
    THEN <<VideoLabelParagraph(<<i>>), ImageParagraph(buffer, 500, 350, <<i>>)>>
    ELSE <<PlaceholderParagraph(blocks[i].mimeType, <<i>>)>>

(***************************************************************************)
(* C12: in the flat path every video block whose capture failed (timeout,  *)
(* load error, encode failure) contributes exactly one placeholder block   *)
(* in its position and the export goes on; a successful capture            *)
(* contributes the snapshot label block followed by the image block; once  *)
(* the loop is over no video block has contributed zero blocks.            *)
(***************************************************************************)
C12_VideoBlockNeverLost ==
  (path = "flat" /\ pc # "idle") =>
     /\ \A i \in 1..Len(blocks) :
           blocks[i].type = "video" =>
              LET rs == ResolutionsOf(i)
              IN  /\ Len(rs) <= 1
                  /\ BlocksOfTop(i) = IF rs = <<>> THEN <<>>
                                      ELSE VideoBlocks(i, rs[1].buffer)
                  /\ Translated => Len(rs) = 1 /\ BlocksOfTop(i) # <<>>
     /\ InBlockOrder
     /\ Translated => FlatTextBlocksExported

C12_Witness ==
  /\ path = "flat"
  /\ pc = "done"
  /\ \E i, j \in 1..Len(blocks) :
        /\ i < j
        /\ blocks[i].type = "video" /\ blocks[j].type = "video"
        /\ ~ResolutionsOf(i)[1].buffer.ok
        /\ ResolutionsOf(j)[1].buffer.ok
        /\ Len(BlocksOfTop(i)) = 1 /\ Len(BlocksOfTop(j)) = 2


(***************************************************************************)
(* C13: a capture whose video fires neither loadeddata nor error settles   *)
(* with null when the 5 s timer expires: while it waits for the video the  *)
(* timer is armed and no more than 5 s have elapsed, and a settlement that *)
(* no video event caused is the timer's, happens when exactly 5 s have     *)
(* elapsed and yields null.                                                *)
(***************************************************************************)
C13_NoEventSettlesAtExpiry ==
  [][ /\ capture.phase = "loading" => capture.timer /\ capture.elapsed <= TimeoutMs
      /\ ( /\ capture.phase = "loading"
           /\ Len(resolved') = Len(resolved) + 1
           /\ lastSettle'.cause \notin {"error", "noContext"} )
         => /\ lastSettle'.cause = "timeout"
            /\ capture.elapsed = TimeoutMs
            /\ ~resolved'[Len(resolved')].buffer.ok ]_vars

C13_Witness ==
  /\ lastSettle = [cause |-> "timeout", phase |-> "loading"]
  /\ pc = "packing"
  /\ resolved # <<>>
  /\ ~resolved[Len(resolved)].buffer.ok
  /\ resolved[Len(resolved)].site = "video"


\* the latest completed resolution
LastResolved == resolved[Len(resolved)]

(***************************************************************************)
(* C14: for an externally fetchable reference the resolver returns Failure *)
(* when the one read it issues ends with a network error, with a 4xx/5xx   *)
(* response or on a revoked blob handle, and returns a byte buffer only    *)
(* when the read succeeded.                                                *)
(***************************************************************************)
C14_BufferOnlyForSuccessfulRead ==
  ( /\ resolved # <<>>
    /\ LastResolved.site \in {"inline", "block", "flatImage"}
    /\ ~IsDataUrl(LastResolved.src) )
  => /\ lastSettle.cause \in {"networkError", "status404", "revokedBlob"}
          => ~LastResolved.buffer.ok
     /\ LastResolved.buffer.ok => lastSettle.cause = "ok"


(***************************************************************************)
(* C15: when Packer.toBlob throws, the export performs no save action (no  *)
(* object URL, no click), it ends as one rejection, and the handler that   *)
(* awaited it sets exactly one error notification and returns the loading  *)
(* flag to false; an export that was not rejected sets no notification.    *)
(***************************************************************************)
C15_AssemblyFailureReportedOnce ==
  /\ pc = "rejected" =>
        /\ saveLog = <<>>
        /\ app.handler = "awaiting" => app.isLoading /\ app.setErrorCalls = 0
        /\ app.handler = "returned" =>
              /\ app.setErrorCalls = 1
              /\ app.error = ExportErrorMessage(path)
              /\ ~app.isLoading
  /\ pc # "rejected" => app.setErrorCalls = 0 /\ app.error = ""

C15_Witness ==
  /\ pc = "rejected"
  /\ app.handler = "returned"
  /\ app.error = "ExportError(ko)"
  /\ ~app.isLoading
  /\ saveLog = <<>>
  /\ Len(docChildren) > 1


(***************************************************************************)
(* Vocabulary of the order of resolutions.                                 *)
(***************************************************************************)
\* node a precedes node b in document order (neither contains the other)
DocBefore(a, b) ==
  \E k \in 1..Len(a) :
     /\ k <= Len(b)
     /\ SubSeq(a, 1, k - 1) = SubSeq(b, 1, k - 1)
     /\ a[k] < b[k]

\* a and b lie in one list item, b inside a direct child list of that item
InChildListOfSharedItem(a, b) ==
  /\ path = "primary"
  /\ \E n \in 1..(Len(b) - 2) :
        LET item == SubSeq(b, 1, n)
        IN  /\ IsPrefix(item, a)
            /\ NodeAt(Body, item).tag = "LI"
            /\ IsListElement(NodeAt(Body, SubSeq(b, 1, n + 1)))
            /\ ~IsPrefix(SubSeq(b, 1, n + 1), a)

ImageNodes(runs) ==
  LET images == SelectSeq(runs, LAMBDA r : r.type = "image")
  IN  [k \in 1..Len(images) |-> images[k].node]

\* the nodes of the images built so far, in output order
OutputImageNodes ==
  ImageNodes(Flatten([k \in 1..Len(docChildren) |-> docChildren[k].children])
             \o children)

\* the nodes whose resolution returned a buffer, in the order of completion
ResolvedImageNodes ==
  LET done == SelectSeq(resolved, LAMBDA e : e.buffer.ok)
  IN  [k \in 1..Len(done) |-> done[k].node]

OneOutstanding ==
  /\ Len(started) = Len(resolved) + (IF pc = "suspended" THEN 1 ELSE 0)
  /\ \A k \in 1..Len(resolved) : resolved[k].node = started[k]

(***************************************************************************)
(* C16 as claimed: at most one resolution is outstanding at any time and   *)
(* the resolutions are started in document order.                          *)
(***************************************************************************)
C16_StartedInDocumentOrder ==
  /\ OneOutstanding
  /\ \A i, j \in 1..Len(started) : i < j => DocBefore(started[i], started[j])

(***************************************************************************)
(* C16, amended: at most one resolution is outstanding at any time, none   *)
(* starts before the previous one has completed or failed, and the         *)
(* resolutions are started in the order in which their images appear in    *)
(* the output: document order, except that the media of a list item's own  *)
(* content are resolved before the media of its nested list.               *)
(***************************************************************************)
C16_OneOutstandingInOutputOrder ==
  /\ OneOutstanding
  /\ \A i, j \in 1..Len(started) :
        i < j => \/ DocBefore(started[i], started[j])
                 \/ InChildListOfSharedItem(started[i], started[j])
  /\ OutputImageNodes = ResolvedImageNodes

\* the image of a nested list is being resolved after the image that
\* follows the list in the item
C16_Witness ==
  /\ pc = "suspended"
  /\ Len(started) = 2
  /\ Len(resolved) = 1
  /\ DocBefore(started[2], started[1])
  /\ InChildListOfSharedItem(started[1], started[2])


\* the positions of action a in the save log
SavePositions(a) == {i \in 1..Len(saveLog) : saveLog[i] = a}

(***************************************************************************)
(* C18: a successful export has created exactly one object URL, clicked    *)
(* the link exactly once and revoked the URL exactly once, in the order    *)
(* create, click, revoke, so that no URL is left unrevoked when the        *)
(* function returns; before that no save action has happened.              *)
(***************************************************************************)
C18_CreateClickRevoke ==
  /\ pc = "done" =>
        /\ \A a \in {"createObjectURL", "click", "revokeObjectURL"} :
              Cardinality(SavePositions(a)) = 1
        /\ \A c \in SavePositions("createObjectURL"), k \in SavePositions("click"),
              r \in SavePositions("revokeObjectURL") : c < k /\ k < r
  /\ pc # "done" => saveLog = <<>>

C18_Witness ==
  /\ pc = "done"
  /\ app.handler = "returned"
  /\ Len(docChildren) > 1
  /\ SavePositions("revokeObjectURL") = {Len(saveLog)}


(***************************************************************************)
(* C20: every ListItem block of a top-level list has level 0 and every     *)
(* ListItem block of a list that is a direct child of an item at level n   *)
(* has level n + 1, whatever the depth: the translation applies no upper   *)
(* bound to the level.                                                     *)
(***************************************************************************)
C20_LevelIsInheritedPlusOne ==
  path = "primary" =>
     \A b \in Range(docChildren) :
        IsListItem(b) =>
           /\ Len(b.node) = 2 => LevelOf(b) = 0
           /\ Len(b.node) > 2 =>
                 \E parent \in Range(docChildren) :
                    /\ IsListItem(parent)
                    /\ NestedIn(b, parent)
                    /\ LevelOf(b) = LevelOf(parent) + 1
           /\ LevelOf(b) = Len(b.node) \div 2 - 1

\* an item deeper than the three levels of the numbering configuration
C20_Witness ==
  /\ path = "primary"
  /\ pc = "done"
  /\ \E b \in Range(docChildren) :
        IsListItem(b) /\ LevelOf(b) >= 3 /\ Len(b.node) = 2 * (LevelOf(b) + 1)


(***************************************************************************)
(* C19: whatever the order of the loadeddata, error, toBlob callback,      *)
(* buffer-read and timer events, a capture is settled no later than the    *)
(* expiry of the 5 s timer: no capture is pending after more than 5 s, and *)
(* none is left with nothing that can settle it.                           *)
(***************************************************************************)
C19_SettledByTimerExpiry ==
  capture.phase # "idle" =>
     /\ capture.elapsed <= TimeoutMs
     /\ capture.phase # "hung"


(***************************************************************************)
(* Two interleaved invocations of the primary export.  exportDocToDocx is  *)
(* an exported async function: a second call made while the first is       *)
(* suspended interleaves with it at the awaits.  An array the code         *)
(* allocates is a slot of conc.docChildrenArrays / conc.childrenArrays;    *)
(* which slot a call uses is what makes the array private or shared.       *)
(***************************************************************************)
\* the markup of the two invocations
ConcurrentBodies ==
  { <<Elem("P", <<Ta, Img("blob:1"), Tb>>)>>,
    <<Elem("P", <<Img("http:1"), Img("blob:1")>>)>>,
    <<Elem("UL", <<LI(<<Img("blob:1"), Ta>>)>>), Elem("P", <<Tb>>)>>,
    <<Img("blob:1"), Elem("H2", <<Tb>>)>> }

\* `const docChildren: any[] = []` inside exportDocToDocx: one array per call
docChildrenArrayOf(i) == i

\* one array for the whole module
childrenArrayOf_Shared(i) == 1

\* `const children: any[] = []` inside parseNodeContent: one array per call
childrenArrayOf(i) == i

\* the machine of invocation i, its arrays read from their slots
MachineOf(i) ==
  [stack |-> conc.stack[i],
   children |-> conc.childrenArrays[childrenArrayOf(i)],
   docChildren |-> conc.docChildrenArrays[docChildrenArrayOf(i)],
   awaiting |-> conc.awaiting[i]]

\* invocation i has run to machine state m
ProceedOf(i, m, buffers) ==
  /\ conc' = [conc EXCEPT
        !.stack[i] = m.stack,
        !.awaiting[i] = m.awaiting,
        !.childrenArrays[childrenArrayOf(i)] = m.children,
        !.docChildrenArrays[docChildrenArrayOf(i)] = m.docChildren,
        !.outcomes[i] = buffers,
        !.pc[i] = IF m.awaiting.site = "none" THEN "packing" ELSE "suspended",
        !.final[i] = IF m.awaiting.site = "none" THEN m.docChildren ELSE @]
  /\ UNCHANGED <<ed, path, title, blocks, pc, stack, children, docChildren, awaiting,
                 capture, document, saveLog, resolved, lastSettle, started, app>>

ConcurrentInit ==
  /\ conc \in
       { [title |-> t, body |-> b,
          pc |-> <<"idle", "idle">>,
          stack |-> <<<<>>, <<>>>>,
          awaiting |-> <<NotAwaiting, NotAwaiting>>,
          childrenArrays |-> <<<<>>, <<>>>>,
          docChildrenArrays |-> <<<<>>, <<>>>>,
          outcomes |-> <<<<>>, <<>>>>,
          final |-> <<<<>>, <<>>>>] :
         t \in [Invocations -> Titles], b \in [Invocations -> ConcurrentBodies] }
  /\ path = "primary"
  /\ title = ""
  /\ blocks = <<>>
  /\ pc = "idle"
  /\ stack = <<>>
  /\ children = <<>>
  /\ docChildren = <<>>
  /\ awaiting = NotAwaiting
  /\ capture = IdleCapture
  /\ document = NoDocument
  /\ saveLog = <<>>
  /\ resolved = <<>>
  /\ lastSettle = [cause |-> "none", phase |-> "idle"]
  /\ started = <<>>
  /\ app = InitialApp
  /\ ed = NoComponent

\* exportDocToDocx is called and runs to its first await
StartExport(i) ==
  /\ conc.pc[i] = "idle"
  /\ ProceedOf(i, PrimaryRun(conc.title[i], LabelBody(conc.body[i])), <<>>)

\* the getFileBuffer invocation i awaits completes and i runs on
ResolveExport(i) ==
  /\ conc.pc[i] = "suspended"
  /\ \E r \in ReadResults(conc.awaiting[i].src) :
        LET buffer == getFileBuffer(conc.awaiting[i].src, r)
        IN  ProceedOf(i, Run(Resume(MachineOf(i), buffer)),
                      Append(conc.outcomes[i], buffer))

\* Packer.toBlob of invocation i fulfils and the file is saved
PackExport(i) ==
  /\ conc.pc[i] = "packing"
  /\ conc' = [conc EXCEPT !.pc[i] = "done"]
  /\ UNCHANGED <<ed, path, title, blocks, pc, stack, children, docChildren, awaiting,
                 capture, document, saveLog, resolved, lastSettle, started, app>>

ConcurrentNext ==
  \E i \in Invocations : StartExport(i) \/ ResolveExport(i) \/ PackExport(i)

ConcurrentSpec == ConcurrentInit /\ [][ConcurrentNext]_vars

\* the invocation run alone on its input, its resolutions completing with
\* the buffers of outcomes
RECURSIVE SoloRun(_, _)
SoloRun(m, buffers) ==
  IF m.awaiting.site = "none" \/ buffers = <<>> THEN m
  ELSE SoloRun(Run(Resume(m, Head(buffers))), Tail(buffers))

Solo(i) ==
  SoloRun(PrimaryRun(conc.title[i], LabelBody(conc.body[i])), conc.outcomes[i])

(***************************************************************************)
(* C17: two invocations that interleave at their awaits share no mutable   *)
(* state: whatever the interleaving of their resolutions, each invocation  *)
(* is where it would be had it run alone on its input with the same        *)
(* resolution results, and the block sequence it hands to the serializer   *)
(* is the one it produces alone.                                           *)
(***************************************************************************)
C17_InterleavedExportsAreIndependent ==
  \A i \in Invocations :
     conc.pc[i] # "idle" =>
        /\ MachineOf(i) = Solo(i)
        /\ conc.pc[i] \in {"packing", "done"} =>
              /\ Solo(i).awaiting.site = "none"
              /\ conc.final[i] = Solo(i).docChildren

\* both invocations are suspended: the first in the middle of a paragraph
\* with a run collected, the second on its second image
C17_Witness ==
  /\ conc.pc = <<"suspended", "suspended">>
  /\ conc.body[1] = <<Elem("P", <<Ta, Img("blob:1"), Tb>>)>>
  /\ conc.body[2] = <<Elem("P", <<Img("http:1"), Img("blob:1")>>)>>
  /\ Len(conc.childrenArrays[1]) = 1
  /\ conc.outcomes[1] = <<>>
  /\ conc.outcomes[2] = <<Bytes("http:1")>>
  /\ Len(conc.childrenArrays[2]) = 1


(***************************************************************************)
(* Vocabulary of the runs of a block.                                      *)
(***************************************************************************)
\* the blocks whose runs parseNodeContent returned
IsRunBlock(b) == b.kind \in {"Paragraph", "Heading", "ListItem", "Quote"}

\* the childNodes of the element handed to parseNodeContent for block b
FragmentOf(b) ==
  LET n == NodeAt(Body, b.node)
  IN  IF b.kind = "ListItem" THEN liClone(n) ELSE n.kids

ResolvedOk(id) == \E e \in Range(resolved) : e.node = id /\ e.buffer.ok

\* a non-empty text leaf or an image whose resolution returned a buffer
IsRunLeaf(n) ==
  \/ n.type = "text" /\ n.text # <<>>
  \/ n.type = "elem" /\ n.tag = "IMG" /\ ResolvedOk(n.id)

\* the leaves of a fragment that yield a run, in document order
RunLeaves(fragment) == SelectSeq(NodesOf(fragment), IsRunLeaf)

(***************************************************************************)
(* C21: the runs parseNodeContent returns for a fragment are exactly the   *)
(* non-empty text leaves and the successfully resolved images of the       *)
(* fragment in document order, one run per leaf: no run has empty text,    *)
(* none is reordered, merged with a neighbour or left out.                 *)
(***************************************************************************)
C21_RunsAreLeavesInDocumentOrder ==
  path = "primary" =>
     \A b \in Range(docChildren) :
        IsRunBlock(b) =>
           LET leaves == RunLeaves(FragmentOf(b))
           IN  /\ Len(b.children) = Len(leaves)
               /\ \A k \in 1..Len(leaves) :
                     LET r == b.children[k]
                         n == leaves[k]
                     IN  /\ r.node = n.id
                         /\ n.type = "text" =>
                               r.type = "text" /\ r.text = n.text /\ r.text # <<>>
                         /\ n.type = "elem" =>
                               r.type = "image" /\ r.data = BufferOf(n.id).data

\* two equal runs side by side are both kept, and the image resolved after
\* them stands before the text that follows it
C21_Witness ==
  /\ path = "primary"
  /\ pc = "done"
  /\ \E b \in Range(docChildren) :
        /\ IsRunBlock(b)
        /\ Len(b.children) = 4
        /\ [b.children[1] EXCEPT !.node = <<>>] = [b.children[2] EXCEPT !.node = <<>>]
        /\ b.children[3].type = "image"
        /\ b.children[4].type = "text"


\* the tags of the elements between the root of block b's fragment and the
\* leaf of run r
WrapperTags(b, r) ==
  {NodeAt(Body, SubSeq(r.node, 1, k)).tag : k \in (Len(b.node) + 1)..(Len(r.node) - 1)}

(***************************************************************************)
(* C22: a text run is bold iff its text leaf has a STRONG or B ancestor    *)
(* inside the fragment, italic iff it has an EM or I ancestor, underlined  *)
(* iff it has a U ancestor: a wrapper clears no flag of an ancestor and    *)
(* gives none to the leaves outside it.                                    *)
(***************************************************************************)
C22_StylesFromAncestorsOnly ==
  path = "primary" =>
     \A b \in Range(docChildren) :
        IsRunBlock(b) =>
           \A r \in Range(b.children) :
              r.type = "text" =>
                 /\ r.bold = (WrapperTags(b, r) \cap {"STRONG", "B"} # {})
                 /\ r.italics = (WrapperTags(b, r) \cap {"EM", "I"} # {})
                 /\ r.underline = ("U" \in WrapperTags(b, r))

\* bold and italic under B > I, bold alone next to it, plain in the sibling
\* SPAN, bold and underlined under U > STRONG
C22_Witness ==
  /\ path = "primary"
  /\ pc = "done"
  /\ \E b \in Range(docChildren) :
        /\ IsRunBlock(b)
        /\ Len(b.children) = 4
        /\ b.children[1].bold /\ b.children[1].italics /\ ~b.children[1].underline
        /\ b.children[2].bold /\ ~b.children[2].italics
        /\ ~b.children[3].bold /\ ~b.children[3].italics /\ ~b.children[3].underline
        /\ b.children[4].bold /\ b.children[4].underline /\ ~b.children[4].italics


\* the tags processBlockNode has a branch for
RecognizedTags ==
  {"H1", "H2", "H3", "H4", "H5", "H6", "P", "DIV", "UL", "OL", "BLOCKQUOTE", "HR", "IMG"}

\* the top-level elements of an unrecognized kind
UnrecognizedTop ==
  {i \in 1..Len(Body) : Body[i].type = "elem" /\ Body[i].tag \notin RecognizedTags}

HasRecognizedDescendant(n) ==
  \E d \in Range(NodesOf(n.kids)) : d.type = "elem" /\ d.tag \in RecognizedTags

(***************************************************************************)
(* C23: a top-level element of an unrecognized kind yields no block, no    *)
(* run and no resource resolution, whatever it contains, and the           *)
(* translation goes on: the block sequence is the one of the body without  *)
(* that element.                                                           *)
(***************************************************************************)
C23_UnrecognizedElementsAreSkipped ==
  (path = "primary" /\ pc # "idle") =>
     /\ \A i \in UnrecognizedTop :
           /\ \A b \in Range(ContentBlocks) : b.node[1] # i
           /\ \A r \in Range(children) : r.node[1] # i
           /\ \A k \in 1..Len(started) : started[k][1] # i
     /\ Translated =>
           docChildren =
             RunWithSameBuffers(
               PrimaryRun(title, Without(Body, {Body[i].id : i \in UnrecognizedTop}))).docChildren

\* an unrecognized element that holds a recognized one is skipped and the
\* sibling after it is translated
C23_Witness ==
  /\ path = "primary"
  /\ pc = "done"
  /\ \E i \in UnrecognizedTop :
        /\ HasRecognizedDescendant(Body[i])
        /\ i < Len(Body)
        /\ BlocksOfTop(i) = <<>>
        /\ BlocksOfTop(i + 1) # <<>>


(***************************************************************************)
(* The hosting components: the flat block editor (part_001) with its       *)
(* block list, undo history and object URLs, and the Tiptap App            *)
(* (App.tsx).  Both hold the loading flag and the error notification and   *)
(* start the AI-assist and the export calls.  A handler runs atomically up *)
(* to its await; the render that follows it is what the next handler       *)
(* closes over.  A block is [id, type, text, handle]: text is the content  *)
(* of a text block, handle the number of the object URL of a media block.  *)
(***************************************************************************)
\* if (newHistory.length > 50) newHistory.shift()
HistoryLimit == 50

\* Math.min(prev + 1, 49)
MaxHistoryIndex == 49

\* { id: 'initial', type: 'text', content: '' }
InitialBlock == [id |-> 0, type |-> "text", text |-> "", handle |-> 0]

\* part_001 after mount
MountedEditor ==
  [NoComponent EXCEPT !.component = "Editor", !.blocks = <<InitialBlock>>,
                      !.history = <<<<InitialBlock>>>>]

\* App.tsx after mount; hasContent: the title or the text of the document
\* is not empty
MountedApp(hasContent) ==
  [NoComponent EXCEPT !.component = "App", !.hasContent = hasContent]

\* the blocks handleFileChange appends for the file behind object URL handle
FileBlocks(handle, type) ==
  <<[id |-> 10 * handle + 1, type |-> type, text |-> "", handle |-> handle],
    [id |-> 10 * handle + 2, type |-> "text", text |-> "", handle |-> 0]>>

\* { id: 'ai-' + Date.now(), type: 'text', content: <suggestion> }
AiBlock(call) == [id |-> 100 + call, type |-> "text", text |-> "ai", handle |-> 0]

\* pushToHistory as created by the render in which historyIndex was
\* closureIndex: the slice uses the index of the closure, the new index is
\* computed from the current one
pushToHistory(e, closureIndex, newBlocks) ==
  LET kept == SubSeq(e.history, 1, Min({closureIndex + 1, Len(e.history)}))
      newHistory == Append(kept, newBlocks)
  IN  [e EXCEPT !.history = IF Len(newHistory) > HistoryLimit
                              THEN Tail(newHistory) ELSE newHistory,
                !.historyIndex = Min({@ + 1, MaxHistoryIndex}),
                !.pushes = @ + 1]

\* history[index] of the JS array; reading past the end gives undefined and
\* JSON.parse(JSON.stringify(undefined)) throws before setBlocks is called
restoreBlocks(e, index) ==
  IF index + 1 <= Len(e.history)
    THEN [e EXCEPT !.historyIndex = index, !.blocks = e.history[index + 1]]
    ELSE [e EXCEPT !.historyIndex = index]

handleUndo(e) == IF e.historyIndex > 0 THEN restoreBlocks(e, e.historyIndex - 1) ELSE e

handleRedo(e) ==
  IF e.historyIndex < Len(e.history) - 1 THEN restoreBlocks(e, e.historyIndex + 1) ELSE e

\* setTimeout(() => pushToHistory(blocks), 100): the timer keeps the
\* pushToHistory and the blocks of the current render
handleFormat(e) ==
  [e EXCEPT !.timers = Append(@, [closureIndex |-> e.historyIndex, blocks |-> e.blocks])]

handleEraser(e) ==
  pushToHistory([e EXCEPT !.blocks = <<InitialBlock>>], e.historyIndex, <<InitialBlock>>)

\* URL.revokeObjectURL for a media block that holds a blob: URL
revokeFor(e, id) ==
  LET found == {k \in 1..Len(e.blocks) : e.blocks[k].id = id}
  IN  IF found # {} /\ e.blocks[Min(found)].type # "text"
        THEN [e EXCEPT !.revoked = @ \cup {e.blocks[Min(found)].handle}]
        ELSE e

\* a removal that filters the last block away too
removeBlock_NoReset(e, id) ==
  LET r == revokeFor(e, id)
      next == SelectSeq(e.blocks, LAMBDA b : b.id # id)
  IN  pushToHistory([r EXCEPT !.blocks = next], e.historyIndex, next)

removeBlock(e, id) ==
  LET r == revokeFor(e, id)
      next == SelectSeq(e.blocks, LAMBDA b : b.id # id)
  IN  IF Len(e.blocks) <= 1
        THEN pushToHistory([r EXCEPT !.blocks = <<InitialBlock>>, !.resets = @ + 1],
                           e.historyIndex, <<InitialBlock>>)
        ELSE pushToHistory([r EXCEPT !.blocks = next], e.historyIndex, next)

\* one file chosen: URL.createObjectURL, a media block and an empty text
\* block appended
handleFileChange(e, type) ==
  LET handle == e.handles + 1
      next == e.blocks \o FileBlocks(handle, type)
  IN  pushToHistory([e EXCEPT !.handles = handle, !.blocks = next, !.error = ""],
                    e.historyIndex, next)

\* updateBlock(id, content): the user types into a text block
updateBlock(e, id) ==
  [e EXCEPT !.blocks = [k \in 1..Len(@) |->
                          IF @[k].id = id THEN [@[k] EXCEPT !.text = "x"] ELSE @[k]]]

\* an export trigger that stays enabled during a call
exportDisabled_Never(e) == FALSE

\* disabled={isLoading} of the export button
exportDisabled(e) == e.isLoading

\* disabled={isLoading} of the AI buttons
aiDisabled(e) == e.isLoading

\* the early return of handleAiAssist: nothing to send
NothingToAssist(e) ==
  IF e.component = "App" THEN ~e.hasContent
  ELSE \A k \in 1..Len(e.blocks) : e.blocks[k].type = "text" /\ e.blocks[k].text = ""

\* handleAiAssist up to its first await
handleAiAssistStart(e) ==
  IF NothingToAssist(e)
    THEN IF e.component = "App" THEN [e EXCEPT !.error = "EnterTitleOrContent(ko)"] ELSE e
    ELSE [e EXCEPT !.isLoading = TRUE, !.error = "", !.calls = @ + 1,
                   !.aiInFlight = Append(@, [closureIndex |-> e.historyIndex, call |-> e.calls + 1])]

\* handleAiAssist after generateAiWritingAssist settled: the editor appends
\* the suggestion with the pushToHistory of the render of the click; catch
\* sets the error; finally clears the flag
handleAiAssistSettle(e, ok) ==
  LET call == Head(e.aiInFlight)
      rest == [e EXCEPT !.aiInFlight = Tail(@), !.isLoading = FALSE]
      next == e.blocks \o <<AiBlock(call.call)>>
  IN  IF ~ok THEN [rest EXCEPT !.error = "AiError(ko)"]
      ELSE IF e.component = "App" THEN rest
      ELSE pushToHistory([rest EXCEPT !.blocks = next], call.closureIndex, next)

\* handleExport / handleExportDocx up to the await
handleExportBegin(e) ==
  [e EXCEPT !.isLoading = TRUE, !.calls = @ + 1, !.exportsInFlight = @ + 1]

\* handleExport / handleExportDocx after exportDocToDocx settled
handleExportSettle(e, ok) ==
  LET rest == [e EXCEPT !.exportsInFlight = @ - 1, !.isLoading = FALSE]
  IN  IF ok THEN rest ELSE [rest EXCEPT !.error = "ExportError(ko)"]


(***************************************************************************)
(* The events of a component.                                              *)
(***************************************************************************)
ComponentStep(e) ==
  /\ ed' = e
  /\ UNCHANGED <<path, title, blocks, pc, stack, children, docChildren, awaiting,
                 capture, document, saveLog, resolved, lastSettle, started, app,
                 conc>>

\* a push may still be made or scheduled
CanPush == ed.pushes + Len(ed.timers) + Len(ed.aiInFlight) < MaxPushes

InEditor == ed.component = "Editor"

\* the undo button (disabled when historyIndex is 0)
Undo == InEditor /\ ed.historyIndex > 0 /\ ComponentStep(handleUndo(ed))

\* the redo button
Redo ==
  /\ InEditor
  /\ ed.historyIndex < Len(ed.history) - 1
  /\ ComponentStep(handleRedo(ed))

\* a format button: execCommand and the deferred push
Format == InEditor /\ CanPush /\ ComponentStep(handleFormat(ed))

\* 100 ms later the oldest timer runs its push
FormatTimerFires ==
  /\ InEditor
  /\ ed.timers # <<>>
  /\ LET timer == Head(ed.timers)
     IN  ComponentStep(pushToHistory([ed EXCEPT !.timers = Tail(@)],
                                     timer.closureIndex, timer.blocks))

Eraser == InEditor /\ CanPush /\ ComponentStep(handleEraser(ed))

RemoveBlock ==
  /\ InEditor
  /\ CanPush
  /\ \E k \in 1..Len(ed.blocks) : ComponentStep(removeBlock(ed, ed.blocks[k].id))

FileChange ==
  /\ InEditor
  /\ CanPush
  /\ ed.handles < MaxFiles
  /\ \E type \in {"image", "video"} : ComponentStep(handleFileChange(ed, type))

\* the user types into the first block
UpdateBlock ==
  /\ InEditor
  /\ ed.blocks[1].type = "text"
  /\ ed.blocks[1].text = ""
  /\ ComponentStep(updateBlock(ed, ed.blocks[1].id))

AiAssist ==
  /\ ed.component # "none"
  /\ ~aiDisabled(ed)
  /\ NothingToAssist(ed) \/ (ed.calls < MaxCalls /\ CanPush)
  /\ handleAiAssistStart(ed) # ed
  /\ ComponentStep(handleAiAssistStart(ed))

AiAssistSettles ==
  /\ ed.aiInFlight # <<>>
  /\ \E ok \in BOOLEAN : ComponentStep(handleAiAssistSettle(ed, ok))

ExportClick ==
  /\ ed.component # "none"
  /\ ~exportDisabled(ed)
  /\ ed.calls < MaxCalls
  /\ ComponentStep(handleExportBegin(ed))

ExportSettles ==
  /\ ed.exportsInFlight > 0
  /\ \E ok \in BOOLEAN : ComponentStep(handleExportSettle(ed, ok))

ComponentInit ==
  /\ ed \in {MountedEditor} \cup {MountedApp(c) : c \in BOOLEAN}
  /\ conc = NoInvocations
  /\ path = "primary"
  /\ title = ""
  /\ blocks = <<>>
  /\ pc = "idle"
  /\ stack = <<>>
  /\ children = <<>>
  /\ docChildren = <<>>
  /\ awaiting = NotAwaiting
  /\ capture = IdleCapture
  /\ document = NoDocument
  /\ saveLog = <<>>
  /\ resolved = <<>>
  /\ lastSettle = [cause |-> "none", phase |-> "idle"]
  /\ started = <<>>
  /\ app = InitialApp

ComponentNext ==
  \/ Undo
  \/ Redo
  \/ Format
  \/ FormatTimerFires
  \/ Eraser
  \/ RemoveBlock
  \/ FileChange
  \/ UpdateBlock
  \/ AiAssist
  \/ AiAssistSettles
  \/ ExportClick
  \/ ExportSettles

ComponentSpec == ComponentInit /\ [][ComponentNext]_vars


(***************************************************************************)
(* C24: in the flat block editor, after any sequence and interleaving of   *)
(* history pushes (immediate and deferred by 100 ms), undo and redo, the   *)
(* history has between 1 and 50 entries and                                *)
(* 0 <= historyIndex < history.length, so that undo and redo read an       *)
(* existing entry.                                                         *)
(***************************************************************************)
C24_HistoryIndexInRange ==
  ed.component = "Editor" =>
     /\ Len(ed.history) >= 1
     /\ Len(ed.history) <= HistoryLimit
     /\ ed.historyIndex >= 0
     /\ ed.historyIndex < Len(ed.history)


(***************************************************************************)
(* C25: in the flat block editor, after any sequence of file additions,    *)
(* block removals, undo and redo, no media block of the current block list *)
(* references a blob handle that has been revoked.                         *)
(***************************************************************************)
C25_NoRevokedHandleInBlocks ==
  ed.component = "Editor" =>
     \A k \in 1..Len(ed.blocks) :
        ed.blocks[k].type # "text" => ed.blocks[k].handle \notin ed.revoked


(***************************************************************************)
(* C26: in both components the loading flag is true exactly while an       *)
(* AI-assist call or an export call is in flight: a call sets it when it   *)
(* starts and clears it when it completes, with success or with failure;   *)
(* the AI and export triggers are disabled while it is true, so at most    *)
(* one call is in flight, and the flag is not left true with no call in    *)
(* flight.                                                                 *)
(***************************************************************************)
CallsInFlight == Len(ed.aiInFlight) + ed.exportsInFlight

C26_LoadingExactlyWhileInFlight ==
  ed.component # "none" =>
     /\ CallsInFlight <= 1
     /\ ed.isLoading = (CallsInFlight = 1)

\* a second call was started after the first one failed: the flag was
\* cleared by the failure and is set again
C26_Witness ==
  /\ ed.component = "App"
  /\ ed.calls = 2
  /\ ed.error \in {"AiError(ko)", "ExportError(ko)"}
  /\ ed.isLoading
  /\ CallsInFlight = 1


(***************************************************************************)
(* C27: the output of the primary export depends only on the title and on  *)
(* the first block: an invocation with the same title and the same first   *)
(* block produces the same block sequence, whatever blocks follow the      *)
(* first one, and an empty block list exports the title block alone.       *)
(***************************************************************************)
\* the block lists that follow the first block in the compared invocation
RemainingBlocks ==
  {<<>>} \cup {<<x>> : x \in FlatBlocks} \cup {<<x, x>> : x \in FlatBlocks}

\* what the resolution of node id returned in this export; a node this
\* export did not resolve fails to resolve
ResolvedBuffer(id) ==
  IF \E e \in Range(resolved) : e.node = id THEN BufferOf(id) ELSE Null

RECURSIVE RunWithResolved(_)
RunWithResolved(m) ==
  IF m.awaiting.site = "none" THEN m
  ELSE RunWithResolved(Run(Resume(m, ResolvedBuffer(m.awaiting.node))))

C27_OutputDependsOnTitleAndFirstBlock ==
  (path = "primary" /\ Translated) =>
     IF blocks = <<>>
       THEN docChildren = TitleFirst(title, "NoTitle(ko)")
       ELSE \A rest \in RemainingBlocks :
               RunWithResolved(PrimaryStart(title, <<blocks[1]>> \o rest)).docChildren
                  = docChildren

\* a finished export of two blocks: the body of the first is in the output,
\* the second is a media block
C27_Witness ==
  /\ path = "primary"
  /\ pc = "done"
  /\ Len(blocks) = 2
  /\ blocks[2].type # "text"
  /\ Len(docChildren) > 1
  /\ document.children = docChildren


(***************************************************************************)
(* C28: in the flat block editor, after any sequence of block removals,    *)
(* eraser resets, file additions, AI-suggestion appends, undo and redo,    *)
(* the block list holds at least one block; removing the only remaining    *)
(* block replaces it by a single empty text block.                         *)
(***************************************************************************)
\* removeBlock was called on the only block of the list
RemovesOnlyBlock ==
  /\ Len(ed.blocks) = 1
  /\ CanPush
  /\ ed' = removeBlock(ed, ed.blocks[1].id)

C28_AtLeastOneBlock ==
  ed.component = "Editor" =>
     /\ Len(ed.blocks) >= 1
     /\ \A i \in 1..Len(ed.history) : Len(ed.history[i]) >= 1
     /\ \A i \in 1..Len(ed.timers) : Len(ed.timers[i].blocks) >= 1

C28_RemovingOnlyBlockResets ==
  [][(InEditor /\ RemovesOnlyBlock) => ed'.blocks = <<InitialBlock>>]_vars

C28_BlockListNeverEmpty ==
  []C28_AtLeastOneBlock /\ C28_RemovingOnlyBlockResets

\* the only block was removed and the list is the initial one again, with
\* a history entry for it
C28_Witness ==
  /\ ed.component = "Editor"
  /\ ed.resets > 0
  /\ ed.blocks = <<InitialBlock>>
  /\ ed.history[Len(ed.history)] = <<InitialBlock>>
  /\ Len(ed.history) > 1

====
